---- MODULE Spec2Model ----
(***************************************************************************)
(* Kali tools API server: the request validators and per-tool handlers of  *)
(* kali_server.py, and the two process runners (kali_server.py's           *)
(* communicate()-based CommandExecutor and models/executor.py's threaded   *)
(* CommandExecutor).                                                       *)
(*                                                                         *)
(* Text is a sequence of one-character strings: "nmap" is                  *)
(* <<"n","m","a","p">>.  A JSON value is a record [t, s]: t is "str" (s    *)
(* the text), "absent" (key not in the body) or "list" (a non-empty JSON   *)
(* array, standing for the values that are not strings).                   *)
(***************************************************************************)
EXTENDS Integers, Sequences, FiniteSets, TLC

(***************************************************************************)
(* Characters and text helpers                                             *)
(***************************************************************************)
Lower == {"a","b","c","d","e","f","g","h","i","j","k","l","m",
          "n","o","p","q","r","s","t","u","v","w","x","y","z"}
Upper == {"A","B","C","D","E","F","G","H","I","J","K","L","M",
          "N","O","P","Q","R","S","T","U","V","W","X","Y","Z"}
Digit == {"0","1","2","3","4","5","6","7","8","9"}
\* \w of Python's re on the characters the model uses
WordCh == Lower \cup Upper \cup Digit \cup {"_"}
Space == {" ", "\t", "\n"}
\* the backquote character (the parser does not take it inside a string literal)
Backtick == "BQ"

AllIn(s, cls) == \A i \in 1..Len(s) : s[i] \in cls
AnyIn(s, cls) == \E i \in 1..Len(s) : s[i] \in cls
StartsWith(s, p) == Len(s) >= Len(p) /\ SubSeq(s, 1, Len(p)) = p
Drop(s, n) == SubSeq(s, n + 1, Len(s))

\* Python's `$` (without re.MULTILINE) also matches just before a final newline
DollarBody(s) == IF Len(s) > 0 /\ s[Len(s)] = "\n" THEN {s, SubSeq(s, 1, Len(s) - 1)} ELSE {s}


\* str.split(sep) for a one-character separator
RECURSIVE SplitOn(_, _)
SplitOn(s, sep) ==
  IF \E i \in 1..Len(s) : s[i] = sep
  THEN LET i == CHOOSE j \in 1..Len(s) : s[j] = sep /\ \A k \in 1..(j - 1) : s[k] # sep
       IN <<SubSeq(s, 1, i - 1)>> \o SplitOn(Drop(s, i), sep)
  ELSE <<s>>

\* sep.join(parts)
RECURSIVE Join(_, _)
Join(parts, sep) ==
  IF parts = <<>> THEN <<>>
  ELSE IF Len(parts) = 1 THEN parts[1]
  ELSE parts[1] \o sep \o Join(Tail(parts), sep)

RECURSIVE Filter(_, _)
Filter(parts, drop) ==
  IF parts = <<>> THEN <<>>
  ELSE IF Head(parts) \in drop THEN Filter(Tail(parts), drop)
  ELSE <<Head(parts)>> \o Filter(Tail(parts), drop)

DigitVal(c) == CASE c = "0" -> 0 [] c = "1" -> 1 [] c = "2" -> 2 [] c = "3" -> 3
                 [] c = "4" -> 4 [] c = "5" -> 5 [] c = "6" -> 6 [] c = "7" -> 7
                 [] c = "8" -> 8 [] c = "9" -> 9

RECURSIVE DecVal(_)
DecVal(s) == IF s = <<>> THEN 0 ELSE DecVal(SubSeq(s, 1, Len(s) - 1)) * 10 + DigitVal(s[Len(s)])

(***************************************************************************)
(* JSON values and Python's treatment of them                              *)
(***************************************************************************)
Str(s) == [t |-> "str", s |-> s]
Absent == [t |-> "absent", s |-> <<>>]
NonStr == [t |-> "list", s |-> <<>>]

\* data.get(key, default)
Get(data, key, default) == IF data[key].t = "absent" THEN default ELSE data[key]
\* truthiness: `if not value`
Truthy(v) == v.t = "list" \/ (v.t = "str" /\ v.s # <<>>)

\* The outcome of a validation step: the value, a ValueError, or another exception
Ok(v) == [k |-> "ok", v |-> v, msg |-> ""]
Reject(m) == [k |-> "reject", v |-> <<>>, msg |-> m]
Crash(m) == [k |-> "crash", v |-> <<>>, msg |-> m]

(***************************************************************************)
(* Validation helpers (kali_server.py)                                     *)
(***************************************************************************)
HostCh == Lower \cup Upper \cup Digit \cup {".", "_", "-"}
HOSTNAME_REGEX(s) == \E b \in DollarBody(s) : Len(b) >= 1 /\ Len(b) <= 253 /\ AllIn(b, HostCh)

UrlCh == Lower \cup Upper \cup Digit \cup {".", "_", ":", "%", "/", "-", "?", "=", "&", "+", "#", "~"}
HttpPrefix == <<"h","t","t","p",":","/","/">>
HttpsPrefix == <<"h","t","t","p","s",":","/","/">>
URL_REGEX(s) ==
  \E b \in DollarBody(s) : \E p \in {HttpPrefix, HttpsPrefix} :
     StartsWith(b, p) /\ Len(b) > Len(p) /\ AllIn(Drop(b, Len(p)), UrlCh)

\* ipaddress.ip_address on text: the dotted-quad grammar, and the IPv6 literals
\* of the model's inputs
IPv6Literals == { <<":",":","1">> }
IsOctet(p) == Len(p) >= 1 /\ Len(p) <= 3 /\ AllIn(p, Digit) /\ DecVal(p) <= 255
              /\ (Len(p) > 1 => p[1] # "0")
IsIPv4(s) == LET parts == SplitOn(s, ".")
             IN Len(parts) = 4 /\ \A i \in 1..4 : IsOctet(parts[i])
ip_address(s) == IsIPv4(s) \/ s \in IPv6Literals

validate_hostname_or_ip(value, field) ==
  IF ~Truthy(value) THEN Reject("is required")
  ELSE IF value.t # "str" THEN Crash("TypeError")
  ELSE IF ip_address(value.s) THEN Ok(value.s)
  ELSE IF ~HOSTNAME_REGEX(value.s) THEN Reject("Invalid")
  ELSE Ok(value.s)

validate_url(value, field) ==
  IF ~Truthy(value) THEN Reject("is required")
  ELSE IF value.t # "str" THEN Crash("TypeError")
  ELSE IF ~URL_REGEX(value.s) THEN Reject("Invalid")
  ELSE Ok(value.s)

PortCh == Digit \cup {",", "-"}
validate_ports(value) ==
  IF ~Truthy(value) THEN Ok(value.s)
  ELSE IF value.t # "str" THEN Crash("TypeError")
  ELSE IF ~(Len(value.s) >= 1 /\ AllIn(value.s, PortCh)) THEN Reject("Invalid ports specification")
  ELSE Ok(value.s)

\* pathlib.Path(path) and str() of it: repeated slashes and "." components go,
\* exactly two leading slashes stay, ".." components stay, "" becomes "."
PathStr(s) ==
  LET parts == Filter(SplitOn(s, "/"), {<<>>, <<".">>})
      root == IF StartsWith(s, <<"/","/">>) /\ ~StartsWith(s, <<"/","/","/">>) THEN <<"/","/">>
              ELSE IF StartsWith(s, <<"/">>) THEN <<"/">> ELSE <<>>
      r == root \o Join(parts, <<"/">>)
  IN IF r = <<>> THEN <<".">> ELSE r
is_absolute(s) == StartsWith(s, <<"/">>)

allowed_prefixes == { <<"/","u","s","r","/","s","h","a","r","e","/","w","o","r","d","l","i","s","t","s">>,
                      <<"/","t","m","p">> }
sanitize_wordlist_path(path) ==
  IF path.t # "str" THEN Crash("TypeError")
  ELSE LET p == PathStr(path.s)
       IN IF ~is_absolute(p) \/ ~(\E prefix \in allowed_prefixes : StartsWith(p, prefix))
          THEN Reject("Wordlist path not permitted")
          ELSE Ok(p)

\* shlex.split(raw, posix=True): whitespace-separated words, '...' and "..."
\* quoting, backslash escapes; st is shlex's state (" " between words, "a" in a
\* word, a quote character, or "\\" after a backslash), esc its escapedstate
RECURSIVE Lex(_, _, _, _, _, _, _)
Lex(s, i, st, esc, cur, quoted, toks) ==
  LET emit == IF cur # <<>> \/ quoted THEN Append(toks, cur) ELSE toks
  IN IF i > Len(s)
     THEN IF st \in {"'", "\""} THEN Reject("No closing quotation")
          ELSE IF st = "\\" THEN Reject("No escaped character")
          ELSE Ok(emit)
     ELSE LET c == s[i]
          IN CASE st \in {" ", "a"} ->
                    IF c \in Space THEN Lex(s, i + 1, " ", esc, <<>>, FALSE, emit)
                    ELSE IF c = "\\" THEN Lex(s, i + 1, "\\", "a", cur, quoted, toks)
                    ELSE IF c \in {"'", "\""} THEN Lex(s, i + 1, c, esc, cur, quoted, toks)
                    ELSE Lex(s, i + 1, "a", esc, Append(cur, c), quoted, toks)
               [] st \in {"'", "\""} ->
                    IF c = st THEN Lex(s, i + 1, "a", esc, cur, TRUE, toks)
                    ELSE IF c = "\\" /\ st = "\"" THEN Lex(s, i + 1, "\\", st, cur, TRUE, toks)
                    ELSE Lex(s, i + 1, st, esc, Append(cur, c), TRUE, toks)
               [] st = "\\" ->
                    LET keep == IF esc \in {"'", "\""} /\ c # "\\" /\ c # esc
                                THEN Append(cur, "\\") ELSE cur
                    IN Lex(s, i + 1, esc, esc, Append(keep, c), quoted, toks)
shlex_split(v) ==
  IF v.t # "str" THEN Crash("AttributeError")
  ELSE Lex(v.s, 1, " ", "a", <<>>, FALSE, <<>>)

\* SAFE_ADDITIONAL_ARG_PATTERN = ^[-]{1,2}[\w][\w\-]*(=[\w./:@%+,[\]-]+)?$
FlagValueCh == WordCh \cup {".", "/", ":", "@", "%", "+", ",", "[", "]", "-"}
FlagBody(r) ==
  /\ Len(r) >= 1
  /\ r[1] \in WordCh
  /\ LET kv == SplitOn(r, "=")
     IN /\ AllIn(kv[1], WordCh \cup {"-"})
        /\ Len(kv) > 1 => (Len(kv) = 2 /\ Len(kv[2]) >= 1 /\ AllIn(kv[2], FlagValueCh))
SAFE_ADDITIONAL_ARG_PATTERN(s) ==
  \E b \in DollarBody(s) : \E nd \in {1, 2} :
     Len(b) > nd /\ AllIn(SubSeq(b, 1, nd), {"-"}) /\ FlagBody(Drop(b, nd))

ArgMetaCh == {";", "&", "|", Backtick, "$", ">", "<", "(", ")", "{", "}"}
\* the per-token rule of parse_additional_args
SafeToken(part) ==
  IF StartsWith(part, <<"-">>) THEN SAFE_ADDITIONAL_ARG_PATTERN(part)
  ELSE ~AnyIn(part, ArgMetaCh)

parse_additional_args(raw) ==
  IF ~Truthy(raw) THEN Ok(<<>>)
  ELSE LET parts == shlex_split(raw)
       IN IF parts.k = "crash" THEN parts
          ELSE IF parts.k = "reject" THEN Reject("Unable to parse additional_args")
          ELSE IF \E i \in 1..Len(parts.v) : ~SafeToken(parts.v[i])
               THEN Reject("Unsafe token")
               ELSE Ok(parts.v)

secure_module_name(module) ==
  IF module.t # "str" THEN Crash("TypeError")
  ELSE IF ~(Len(module.s) >= 1 /\ AllIn(module.s, WordCh \cup {"/"}))
       THEN Reject("Invalid module name")
       ELSE Ok(module.s)

validate_msf_option_key(k) ==
  IF ~(Len(k) >= 1 /\ AllIn(k, WordCh)) THEN Reject("Invalid Metasploit option key") ELSE Ok(k)

OptionMetaCh == {"\n", "\r", ";", Backtick, "|", "&", "<", ">", "$"}
validate_msf_option_value(v) ==
  IF v.t = "num" THEN Ok(v.s)
  ELSE IF v.t # "str" THEN Reject("Option values must be string or numeric")
  ELSE IF AnyIn(v.s, OptionMetaCh) THEN Reject("Invalid characters in option value")
  ELSE Ok(v.s)

ALLOWED_COMMANDS == { <<"i","d">>, <<"u","n","a","m","e">>, <<"w","h","o","a","m","i">> }
\* an allow-list check that lets every command through
enforce_allowed_command_open(cmd) == Ok(cmd)
enforce_allowed_command(cmd) ==
  IF cmd \notin ALLOWED_COMMANDS THEN Reject("Command not permitted") ELSE Ok(cmd)

(***************************************************************************)
(* Argument vectors.  An element carries, beside its text, where it came   *)
(* from: src "lit" for a literal of the handler, "req" for text taken from *)
(* the request body; val is the request-derived part of the text and role  *)
(* its semantic role; isstr is FALSE for a JSON value that is not a string.*)
(***************************************************************************)
Lit(s) == [tok |-> s, val |-> <<>>, role |-> "literal", src |-> "lit", isstr |-> TRUE]
Req(s, role) == [tok |-> s, val |-> s, role |-> role, src |-> "req", isstr |-> TRUE]
ReqV(v, role) == [tok |-> v.s, val |-> v.s, role |-> role, src |-> "req", isstr |-> v.t = "str"]
ReqOpt(prefix, s, role) == [tok |-> prefix \o s, val |-> s, role |-> role, src |-> "req", isstr |-> TRUE]
Toks(parts, role) == [i \in 1..Len(parts) |-> Req(parts[i], role)]

\* sequencing of steps that may raise: the first failure ends the try block
Bind(r, F(_)) == IF r.k = "ok" THEN F(r.v) ELSE r

\* `x = data.get(key, default)` followed by a use that needs text
DefaultWordlist == <<"/","u","s","r","/","s","h","a","r","e","/","w","o","r","d","l","i","s","t","s","/","d","i","r","b","/","c","o","m","m","o","n",".","t","x","t">>
DefaultJohnWordlist == <<"/","u","s","r","/","s","h","a","r","e","/","w","o","r","d","l","i","s","t","s","/","r","o","c","k","y","o","u",".","t","x","t">>
DataMetaCh == {";", "&", "|", Backtick, "$", "<", ">"}
IdentCh == WordCh

\* re.fullmatch / re.search applied to a value: TypeError unless it is text
FullMatch(v, cls) == IF v.t # "str" THEN Crash("TypeError")
                     ELSE IF Len(v.s) >= 1 /\ AllIn(v.s, cls) THEN Ok(v.s) ELSE Reject("no match")
Search(v, cls) == IF v.t # "str" THEN Crash("TypeError")
                  ELSE IF AnyIn(v.s, cls) THEN Ok(v.s) ELSE Reject("no match")

\* files that exist on the host (Path.is_file)
Files == { <<"/","t","m","p","/","h">>, <<"/","e","t","c","/","s","h","a","d","o","w">> }
is_file(v) == IF v.t # "str" THEN Crash("TypeError")
              ELSE IF PathStr(v.s) \in Files THEN Ok(v.s) ELSE Reject("not a file")

(***************************************************************************)
(* Endpoints (kali_server.py): the try block of each handler, from the     *)
(* request body to the argument vector, a ValueError or another exception  *)
(***************************************************************************)
\* a network-scan handler that puts the ports after the additional arguments
nmap_ports_late(data) ==
  Bind(validate_hostname_or_ip(Get(data, "target", Str(<<>>)), "target"), LAMBDA target :
  Bind(IF Truthy(data.ports) THEN validate_ports(data.ports) ELSE Ok(<<>>), LAMBDA ports :
  Bind(parse_additional_args(Get(data, "additional_args", Str(<<"-","T","4"," ","-","P","n">>))), LAMBDA additional_args :
  Bind(LET scan_type == Get(data, "scan_type", Str(<<"-","s","C","V">>))
       IN IF Truthy(scan_type) THEN shlex_split(scan_type) ELSE Ok(<<>>), LAMBDA scan_toks :
  Ok(<<Lit(<<"n","m","a","p">>)>> \o Toks(scan_toks, "flag") \o Toks(additional_args, "flag")
       \o (IF ports # <<>> THEN <<Lit(<<"-","p">>), Req(ports, "ports")>> ELSE <<>>)
       \o <<Req(target, "hostname")>>)))))
nmap(data) ==
  Bind(validate_hostname_or_ip(Get(data, "target", Str(<<>>)), "target"), LAMBDA target :
  Bind(IF Truthy(data.ports) THEN validate_ports(data.ports) ELSE Ok(<<>>), LAMBDA ports :
  Bind(parse_additional_args(Get(data, "additional_args", Str(<<"-","T","4"," ","-","P","n">>))), LAMBDA additional_args :
  Bind(LET scan_type == Get(data, "scan_type", Str(<<"-","s","C","V">>))
       IN IF Truthy(scan_type) THEN shlex_split(scan_type) ELSE Ok(<<>>), LAMBDA scan_toks :
  Ok(<<Lit(<<"n","m","a","p">>)>> \o Toks(scan_toks, "flag")
       \o (IF ports # <<>> THEN <<Lit(<<"-","p">>), Req(ports, "ports")>> ELSE <<>>)
       \o Toks(additional_args, "flag") \o <<Req(target, "hostname")>>)))))

Modes == { <<"d","i","r">>, <<"d","n","s">>, <<"f","u","z","z">>, <<"v","h","o","s","t">> }
gobuster(data) ==
  Bind(validate_url(Get(data, "url", Str(<<>>)), "url"), LAMBDA url :
  Bind(LET mode == Get(data, "mode", Str(<<"d","i","r">>))
       IN IF mode.t # "str" THEN Crash("TypeError")
          ELSE IF mode.s \notin Modes THEN Reject("Invalid mode") ELSE Ok(mode.s), LAMBDA mode :
  Bind(sanitize_wordlist_path(Get(data, "wordlist", Str(DefaultWordlist))), LAMBDA wordlist :
  Bind(parse_additional_args(Get(data, "additional_args", Str(<<>>))), LAMBDA additional_args :
  Ok(<<Lit(<<"g","o","b","u","s","t","e","r">>), Req(mode, "mode"), Lit(<<"-","u">>), Req(url, "url"),
       Lit(<<"-","w">>), Req(wordlist, "path")>> \o Toks(additional_args, "flag"))))))

dirb(data) ==
  Bind(validate_url(Get(data, "url", Str(<<>>)), "url"), LAMBDA url :
  Bind(sanitize_wordlist_path(Get(data, "wordlist", Str(DefaultWordlist))), LAMBDA wordlist :
  Bind(parse_additional_args(Get(data, "additional_args", Str(<<>>))), LAMBDA additional_args :
  Ok(<<Lit(<<"d","i","r","b">>), Req(url, "url"), Req(wordlist, "path")>> \o Toks(additional_args, "flag")))))

nikto(data) ==
  Bind(validate_hostname_or_ip(Get(data, "target", Str(<<>>)), "target"), LAMBDA target :
  Bind(parse_additional_args(Get(data, "additional_args", Str(<<>>))), LAMBDA additional_args :
  Ok(<<Lit(<<"n","i","k","t","o">>), Lit(<<"-","h">>), Req(target, "hostname")>> \o Toks(additional_args, "flag"))))

sqlmap(data) ==
  Bind(validate_url(Get(data, "url", Str(<<>>)), "url"), LAMBDA url :
  Bind(LET post_data == Get(data, "data", Str(<<>>))
       IN IF ~Truthy(post_data) THEN Ok(<<>>)
          ELSE LET m == Search(post_data, DataMetaCh)
               IN IF m.k = "crash" THEN m
                  ELSE IF m.k = "ok" THEN Reject("Unsafe characters in data payload")
                  ELSE Ok(post_data.s), LAMBDA post_data :
  Bind(parse_additional_args(Get(data, "additional_args", Str(<<>>))), LAMBDA additional_args :
  Ok(<<Lit(<<"s","q","l","m","a","p">>), Lit(<<"-","u">>), Req(url, "url"), Lit(<<"-","-","b","a","t","c","h">>)>>
       \o (IF post_data # <<>> THEN <<ReqOpt(<<"-","-","d","a","t","a","=">>, post_data, "data")>> ELSE <<>>)
       \o Toks(additional_args, "flag")))))

\* the resource script of the metasploit handler: "use <module>", one
\* "set <key> <value>" per option, "exploit"
RECURSIVE msf_options(_)
msf_options(kv) ==
  IF kv = <<>> THEN Ok(<<>>)
  ELSE Bind(validate_msf_option_key(Head(kv).k), LAMBDA k_s :
       Bind(validate_msf_option_value(Head(kv).v), LAMBDA v_s :
       Bind(msf_options(Tail(kv)), LAMBDA rest :
       Ok(<<<<"s","e","t"," ">> \o k_s \o <<" ">> \o v_s>> \o rest))))
msf_lines(data) ==
  Bind(secure_module_name(Get(data, "module", Str(<<>>))), LAMBDA module :
  Bind(IF data.options.t = "absent" THEN Ok(<<>>)
       ELSE IF data.options.t # "dict" THEN Reject("options must be an object")
       ELSE msf_options(data.options.kv), LAMBDA sets :
  Ok(<<<<"u","s","e"," ">> \o module>> \o sets \o <<<<"e","x","p","l","o","i","t">>>>)))
rc_path == <<"/","t","m","p","/","m","s","f","_","x",".","r","c">>
metasploit(data) ==
  Bind(msf_lines(data), LAMBDA lines :
  Ok(<<Lit(<<"m","s","f","c","o","n","s","o","l","e">>), Lit(<<"-","q">>), Lit(<<"-","r">>), Lit(rc_path)>>))

hydra(data) ==
  Bind(validate_hostname_or_ip(Get(data, "target", Str(<<>>)), "target"), LAMBDA target :
  Bind(LET service == Get(data, "service", Str(<<>>))
       IN IF ~Truthy(service) THEN Reject("Invalid service")
          ELSE LET m == FullMatch(service, IdentCh)
               IN IF m.k = "reject" THEN Reject("Invalid service") ELSE m, LAMBDA service :
  LET username == Get(data, "username", Str(<<>>))
      username_file == Get(data, "username_file", Str(<<>>))
      password == Get(data, "password", Str(<<>>))
      password_file == Get(data, "password_file", Str(<<>>))
  IN IF ~(Truthy(username) \/ Truthy(username_file)) \/ ~(Truthy(password) \/ Truthy(password_file))
     THEN Reject("Provide username/username_file and password/password_file")
     ELSE
  Bind(parse_additional_args(Get(data, "additional_args", Str(<<>>))), LAMBDA additional_args :
  Ok(<<Lit(<<"h","y","d","r","a">>), Lit(<<"-","t">>), Lit(<<"4">>)>>
       \o (IF Truthy(username) THEN <<Lit(<<"-","l">>), ReqV(username, "literal")>>
           ELSE IF Truthy(username_file) THEN <<Lit(<<"-","L">>), ReqV(username_file, "path")>> ELSE <<>>)
       \o (IF Truthy(password) THEN <<Lit(<<"-","p">>), ReqV(password, "literal")>>
           ELSE IF Truthy(password_file) THEN <<Lit(<<"-","P">>), ReqV(password_file, "path")>> ELSE <<>>)
       \o Toks(additional_args, "flag")
       \o <<Req(target, "hostname"), Req(service, "ident")>>))))

john(data) ==
  Bind(LET hash_file == Get(data, "hash_file", Str(<<>>))
       IN IF ~Truthy(hash_file) THEN Reject("Valid hash_file required")
          ELSE LET f == is_file(hash_file)
               IN IF f.k = "reject" THEN Reject("Valid hash_file required") ELSE f, LAMBDA hash_file :
  Bind(sanitize_wordlist_path(Get(data, "wordlist", Str(DefaultJohnWordlist))), LAMBDA wordlist :
  Bind(LET fmt == Get(data, "format", Str(<<>>))
       IN IF ~Truthy(fmt) THEN Ok(<<>>)
          ELSE LET m == FullMatch(fmt, IdentCh)
               IN IF m.k = "reject" THEN Reject("Invalid format") ELSE m, LAMBDA fmt :
  Bind(parse_additional_args(Get(data, "additional_args", Str(<<>>))), LAMBDA additional_args :
  Ok(<<Lit(<<"j","o","h","n">>)>>
       \o (IF fmt # <<>> THEN <<ReqOpt(<<"-","-","f","o","r","m","a","t","=">>, fmt, "ident")>> ELSE <<>>)
       \o (IF wordlist # <<>> THEN <<ReqOpt(<<"-","-","w","o","r","d","l","i","s","t","=">>, wordlist, "path")>> ELSE <<>>)
       \o Toks(additional_args, "flag")
       \o <<Req(hash_file, "path")>>)))))

wpscan(data) ==
  Bind(validate_url(Get(data, "url", Str(<<>>)), "url"), LAMBDA url :
  Bind(parse_additional_args(Get(data, "additional_args", Str(<<>>))), LAMBDA additional_args :
  Ok(<<Lit(<<"w","p","s","c","a","n">>), Lit(<<"-","-","u","r","l">>), Req(url, "url")>> \o Toks(additional_args, "flag"))))

enum4linux(data) ==
  Bind(validate_hostname_or_ip(Get(data, "target", Str(<<>>)), "target"), LAMBDA target :
  Bind(parse_additional_args(Get(data, "additional_args", Str(<<"-","a">>))), LAMBDA additional_args :
  Ok(<<Lit(<<"e","n","u","m","4","l","i","n","u","x">>)>> \o Toks(additional_args, "flag") \o <<Req(target, "hostname")>>)))

\* /api/command: 403 when disabled by policy or when the first word is not
\* allow-listed, 400 for the other rejections
Forbidden(m) == [k |-> "forbidden", v |-> <<>>, msg |-> m]
CommandMetaCh == {";", "&", "|", Backtick, "$", ">", "<"}
generic_command(allow, data) ==
  IF ~allow THEN Forbidden("Generic command execution disabled by server policy")
  ELSE LET raw == Get(data, "command", Str(<<>>))
       IN IF ~Truthy(raw) THEN Reject("command is required")
          ELSE LET parts == shlex_split(raw)
               IN IF parts.k = "crash" THEN parts
                  ELSE IF parts.k = "reject" THEN Reject("Unable to parse command")
                  ELSE IF parts.v = <<>> THEN Reject("Empty command")
                  ELSE IF enforce_allowed_command(parts.v[1]).k # "ok"
                       THEN Forbidden("Command not permitted")
                  ELSE IF \E i \in 2..Len(parts.v) : AnyIn(parts.v[i], CommandMetaCh)
                       THEN Reject("Disallowed token")
                  ELSE Ok(<<Req(parts.v[1], "command")>>
                          \o [i \in 1..(Len(parts.v) - 1) |-> Req(parts.v[i + 1], "cmdarg")])

(***************************************************************************)
(* Process runner: captured text and results                               *)
(***************************************************************************)
\* bounds of the model: lines a process writes per stream, lines a pipe holds
MaxLines == 2
PipeCap == 1
\* MAX_OUTPUT_BYTES (from the environment), set to 3 bytes here
MAX_OUTPUT_BYTES == 3

\* every line a process writes is this text
LineText == <<"x","\n">>
RECURSIVE Lines(_)
Lines(n) == IF n = 0 THEN <<>> ELSE LineText \o Lines(n - 1)
TruncMarker == <<"\n","[","T","R","U","N","C","A","T","E","D","]">>
\* kali_server.py: text[:MAX_OUTPUT_BYTES] + marker when longer than the ceiling
Truncate(text) ==
  IF Len(text) > MAX_OUTPUT_BYTES THEN SubSeq(text, 1, MAX_OUTPUT_BYTES) \o TruncMarker ELSE text

NoResult == [has |-> FALSE, stdout |-> <<>>, stderr |-> <<>>, return_code |-> 0,
             success |-> FALSE, timed_out |-> FALSE, partial_results |-> FALSE]
Result(out, err, rc, ok, to, partial) ==
  [has |-> TRUE, stdout |-> out, stderr |-> err, return_code |-> rc,
   success |-> ok, timed_out |-> to, partial_results |-> partial]

TimeoutMsg == <<"P","r","o","c","e","s","s"," ","t","i","m","e","d"," ","o","u","t">>
NotFoundMsg == <<"E","x","e","c","u","t","a","b","l","e"," ","n","o","t"," ","f","o","u","n","d">>
ExecErrorMsg == <<"E","x","e","c","u","t","i","o","n"," ","e","r","r","o","r">>
ErrorSuffix == <<"\n","E","r","r","o","r">>
ShellNotFound == <<"s","h",":"," ","n","o","t"," ","f","o","u","n","d","\n">>
ShellNoExec == <<"s","h",":"," ","P","e","r","m","i","s","s","i","o","n"," ","d","e","n","i","e","d","\n">>

VARIABLES
  allow_generic,  \* ALLOW_GENERIC_COMMANDS
  hpc,            \* where the request handler is: "idle", "handler", "run", "responded"; "direct" for a direct use of an executor
  endpoint,       \* the route of the request in hand
  body,           \* what get_json(silent=True) gave: "object", "malformed" or "array"
  data,           \* the JSON object of the request
  verdict,        \* the outcome of the handler's try block
  argv,           \* the argument vector handed to run()
  resp,           \* the HTTP response: [status, result]
  rcfile,         \* the metasploit resource file: [exists, lines]
  variant,        \* "server": kali_server.CommandExecutor, "models": models.executor.CommandExecutor
  epc,            \* where execute() is
  spawn,          \* what starting the program did: "ok", "missing", "noexec", "oserror"
  procState,      \* "none", "running", "exited"
  exitStatus,     \* the exit status of the process once exited
  wants,          \* the stream the process is blocked writing to, or "none"
  descendant,     \* a descendant of the exited process still holds the pipes' write ends
  pendingSig,     \* the signal sent to the process and not yet acted on
  sigs,           \* the signals execute() has sent, in order
  outBuf, errBuf,           \* lines in the stdout / stderr pipe
  outWritten, errWritten,   \* lines the process has written to each stream
  stdout_data, stderr_data, \* lines the runner has taken from each pipe
  outReader, errReader,     \* reader threads: "none", "running", "done"
  timed_out,      \* self.timed_out
  return_code,    \* self.return_code (NoCode when None)
  success,        \* the local `success` of models/executor.py
  result,         \* the dictionary execute() returns
  timerFired,     \* the timeout has elapsed
  exitedInTime,   \* the process exited before the timeout elapsed
  graceExpired,   \* the 5 s wait after terminate() has elapsed
  outAtTimeout, errAtTimeout \* lines written to each stream when the timeout elapsed

hvars == <<allow_generic, hpc, endpoint, body, data, verdict, argv, resp, rcfile>>
pvars == <<spawn, procState, exitStatus, wants, descendant, pendingSig,
           outBuf, errBuf, outWritten, errWritten>>
evars == <<variant, epc, sigs, stdout_data, stderr_data, outReader, errReader, timed_out,
           return_code, success, result, timerFired, exitedInTime, graceExpired,
           outAtTimeout, errAtTimeout>>
vars == <<hvars, pvars, evars>>

NoCode == -999
NoData == [target |-> Absent, scan_type |-> Absent, ports |-> Absent, additional_args |-> Absent,
           url |-> Absent, mode |-> Absent, wordlist |-> Absent, data |-> Absent,
           module |-> Absent, options |-> [t |-> "absent", kv |-> <<>>],
           service |-> Absent, username |-> Absent, username_file |-> Absent,
           password |-> Absent, password_file |-> Absent, hash_file |-> Absent,
           format |-> Absent, command |-> Absent]
NoVerdict == [k |-> "none", v |-> <<>>, msg |-> ""]
NoResp == [status |-> 0, result |-> NoResult]
NoFile == [exists |-> FALSE, lines |-> <<>>]

\* the state of a fresh executor object and of no process (executor __init__)
ExecutorInit ==
  /\ spawn = "ok" /\ procState = "none" /\ exitStatus = NoCode /\ wants = "none"
  /\ descendant = FALSE /\ pendingSig = "none" /\ sigs = <<>>
  /\ outBuf = 0 /\ errBuf = 0 /\ outWritten = 0 /\ errWritten = 0
  /\ stdout_data = 0 /\ stderr_data = 0 /\ outReader = "none" /\ errReader = "none"
  /\ timed_out = FALSE /\ return_code = NoCode /\ success = FALSE /\ result = NoResult
  /\ timerFired = FALSE /\ exitedInTime = FALSE /\ graceExpired = FALSE
  /\ outAtTimeout = 0 /\ errAtTimeout = 0

Idle ==
  /\ hpc = "idle" /\ endpoint = "none" /\ body = "object" /\ data = NoData
  /\ verdict = NoVerdict /\ argv = <<>> /\ resp = NoResp /\ rcfile = NoFile
  /\ variant = "server" /\ epc = "none"
  /\ ExecutorInit

Init == allow_generic \in BOOLEAN /\ Idle

(***************************************************************************)
(* Requests the model sends                                                *)
(***************************************************************************)
Targets == {Absent, Str(<<"1","0",".","0",".","0",".","5">>), Str(<<"n","o","t"," ","a"," ","h","o","s","t","!">>), NonStr}
ScanTypes == {Absent, Str(<<>>), Str(<<"-","s","V"," ","-","O">>), Str(<<"-","s","V",";","i","d">>), Str(<<"'","-","s","V">>), NonStr}
PortSpecs == {Absent, Str(<<"8","0",",","4","4","3">>), Str(<<"8","0",";","i","d">>), NonStr}
AddArgs == {Absent, Str(<<"-","T","4"," ","-","-","o","p","e","n">>), Str(<<"-","o","N"," ","a",";","b">>), NonStr}
BadArgs == {Absent, Str(<<"-","o","N"," ","a",";","b">>), NonStr}
Urls == {Absent, Str(<<"h","t","t","p",":","/","/","a",".","b","/">>), Str(<<"f","t","p",":","/","/","a",".","b","/">>), NonStr}
ModeVals == {Absent, Str(<<"d","n","s">>), Str(<<"b","a","d">>), NonStr}
Wordlists == {Absent, Str(<<"/","t","m","p","/","w">>), Str(<<"/","t","m","p","x","/","w">>), Str(<<"/","e","t","c","/","p","a","s","s","w","d">>), Str(<<"/","t","m","p","/",".",".","/","e","t","c","/","p","a","s","s","w","d">>), NonStr}
PostData == {Absent, Str(<<"i","d","=","1">>), Str(<<"i","d","=","1",";","x">>), NonStr}
Modules == {Absent, Str(<<"e","x","p","l","o","i","t","/","a","_","b">>), Str(<<"a"," ","b">>), NonStr}
OptionSets == { [t |-> "absent", kv |-> <<>>], [t |-> "list", kv |-> <<>>],
                [t |-> "dict", kv |-> <<[k |-> <<"R","H","O","S","T","S">>, v |-> Str(<<"1","0",".","0",".","0",".","5">>)]>>],
                [t |-> "dict", kv |-> <<[k |-> <<"R","P","O","R","T">>, v |-> [t |-> "num", s |-> <<"8","0">>]]>>],
                [t |-> "dict", kv |-> <<[k |-> <<"R"," ","H">>, v |-> Str(<<"a">>)]>>],
                [t |-> "dict", kv |-> <<[k |-> <<"C","M","D">>, v |-> Str(<<"a",";","b">>)]>>],
                [t |-> "dict", kv |-> <<[k |-> <<"C","M","D">>, v |-> NonStr]>>] }
Services == {Absent, Str(<<"s","s","h">>), Str(<<"s"," ","h">>), NonStr}
Usernames == {Absent, Str(<<"a","d","m","i","n">>), NonStr}
UserFiles == {Absent, Str(<<"/","e","t","c","/","s","h","a","d","o","w">>)}
Passwords == {Absent, Str(<<"p","w">>)}
PassFiles == {Absent, Str(<<"/","t","m","p","/","w">>), Str(<<"/","e","t","c","/","s","h","a","d","o","w">>)}
HashFiles == {Absent, Str(<<"/","t","m","p","/","h">>), Str(<<"/","e","t","c","/","s","h","a","d","o","w">>), Str(<<"/","t","m","p","/","n","o","n","e">>), NonStr}
Formats == {Absent, Str(<<"m","d","5">>), Str(<<"m"," ","d">>), NonStr}
Commands == {Absent, Str(<<"i","d">>), Str(<<"i","d"," ","-","a">>), Str(<<"i","d"," ",";","x">>), Str(<<"r","m"," ","-","r","f">>), Str(<<"r","m"," ",";","x">>),
             Str(<<"r","m"," ","'","x">>), Str(<<" "," ">>), NonStr}
Endpoints == {"command", "nmap", "gobuster", "dirb", "nikto", "sqlmap", "metasploit",
              "hydra", "john", "wpscan", "enum4linux"}

Bodies(ep) ==
  CASE ep = "command" -> { [NoData EXCEPT !.command = c] : c \in Commands }
    [] ep = "nmap" -> { [NoData EXCEPT !.target = t, !.scan_type = s, !.ports = p, !.additional_args = a] :
                          t \in Targets, s \in ScanTypes, p \in PortSpecs, a \in AddArgs }
    [] ep = "gobuster" -> { [NoData EXCEPT !.url = u, !.mode = m, !.wordlist = w, !.additional_args = a] :
                          u \in Urls, m \in ModeVals, w \in Wordlists, a \in BadArgs }
    [] ep = "dirb" -> { [NoData EXCEPT !.url = u, !.wordlist = w, !.additional_args = a] :
                          u \in Urls, w \in Wordlists, a \in BadArgs }
    [] ep = "nikto" -> { [NoData EXCEPT !.target = t, !.additional_args = a] : t \in Targets, a \in BadArgs }
    [] ep = "sqlmap" -> { [NoData EXCEPT !.url = u, !.data = d, !.additional_args = a] :
                          u \in Urls, d \in PostData, a \in BadArgs }
    [] ep = "metasploit" -> { [NoData EXCEPT !.module = m, !.options = o] : m \in Modules, o \in OptionSets }
    [] ep = "hydra" -> { [NoData EXCEPT !.target = t, !.service = s, !.username = u, !.username_file = uf,
                                        !.password = p, !.password_file = pf, !.additional_args = a] :
                          t \in {Absent, Str(<<"1","0",".","0",".","0",".","5">>)}, s \in Services, u \in Usernames, uf \in UserFiles,
                          p \in Passwords, pf \in PassFiles, a \in BadArgs }
    [] ep = "john" -> { [NoData EXCEPT !.hash_file = h, !.wordlist = w, !.format = f, !.additional_args = a] :
                          h \in HashFiles, w \in {Absent, Str(<<"/","e","t","c","/","p","a","s","s","w","d">>)}, f \in Formats, a \in BadArgs }
    [] ep = "wpscan" -> { [NoData EXCEPT !.url = u, !.additional_args = a] : u \in Urls, a \in BadArgs }
    [] ep = "enum4linux" -> { [NoData EXCEPT !.target = t, !.additional_args = a] : t \in Targets, a \in BadArgs }

\* the try block of the handler of a route
HandlerTry(ep, d) ==
  CASE ep = "command" -> generic_command(allow_generic, d)
    [] ep = "nmap" -> nmap(d)
    [] ep = "gobuster" -> gobuster(d)
    [] ep = "dirb" -> dirb(d)
    [] ep = "nikto" -> nikto(d)
    [] ep = "sqlmap" -> sqlmap(d)
    [] ep = "metasploit" -> metasploit(d)
    [] ep = "hydra" -> hydra(d)
    [] ep = "john" -> john(d)
    [] ep = "wpscan" -> wpscan(d)
    [] ep = "enum4linux" -> enum4linux(d)

\* request.get_json(silent=True) or {}: a malformed body reads as {}; a body
\* that is no JSON object has no .get
HandlerOutcome(ep, b, d) ==
  IF ep = "command" /\ ~allow_generic THEN HandlerTry(ep, d)
  ELSE IF b = "array" THEN Crash("AttributeError")
  ELSE HandlerTry(ep, IF b = "malformed" THEN NoData ELSE d)

\* json_error(msg, status) and Flask's answer to an unhandled exception
StatusOf(k) == CASE k = "reject" -> 400 [] k = "forbidden" -> 403 [] k = "crash" -> 500 [] OTHER -> 200

\* a fresh executor object and no process, as the next state
ExecutorReset ==
  /\ spawn' = "ok" /\ procState' = "none" /\ exitStatus' = NoCode /\ wants' = "none"
  /\ descendant' = FALSE /\ pendingSig' = "none" /\ sigs' = <<>>
  /\ outBuf' = 0 /\ errBuf' = 0 /\ outWritten' = 0 /\ errWritten' = 0
  /\ stdout_data' = 0 /\ stderr_data' = 0 /\ outReader' = "none" /\ errReader' = "none"
  /\ timed_out' = FALSE /\ return_code' = NoCode /\ success' = FALSE /\ result' = NoResult
  /\ timerFired' = FALSE /\ exitedInTime' = FALSE /\ graceExpired' = FALSE
  /\ outAtTimeout' = 0 /\ errAtTimeout' = 0

(***************************************************************************)
(* The external process and the operating system                           *)
(***************************************************************************)
\* a call of execute() is in progress or has returned to a direct caller; the
\* model follows the process until the response is sent
Running == hpc \in {"run", "direct"}
Buf(stream) == IF stream = "out" THEN outBuf ELSE errBuf
Written(stream) == IF stream = "out" THEN outWritten ELSE errWritten
\* a reader of the stream finds end of file: nothing buffered, no writer left
AtEOF(stream) == Buf(stream) = 0 /\ procState = "exited" /\ ~descendant

\* the process writes one line to a stream whose pipe has room
ProcWrite(stream) ==
  /\ Running /\ procState = "running" /\ wants \in {"none", stream}
  /\ Written(stream) < MaxLines /\ Buf(stream) < PipeCap
  /\ wants' = "none"
  /\ IF stream = "out"
     THEN outBuf' = outBuf + 1 /\ outWritten' = outWritten + 1 /\ UNCHANGED <<errBuf, errWritten>>
     ELSE errBuf' = errBuf + 1 /\ errWritten' = errWritten + 1 /\ UNCHANGED <<outBuf, outWritten>>
  /\ UNCHANGED <<spawn, procState, exitStatus, descendant, pendingSig>>
  /\ UNCHANGED <<hvars, evars>>

\* the process writes to a stream whose pipe is full, and blocks
ProcBlock(stream) ==
  /\ Running /\ procState = "running" /\ wants = "none"
  /\ Written(stream) < MaxLines /\ Buf(stream) = PipeCap
  /\ wants' = stream
  /\ UNCHANGED <<spawn, procState, exitStatus, descendant, pendingSig,
                 outBuf, errBuf, outWritten, errWritten>>
  /\ UNCHANGED <<hvars, evars>>

\* the process exits on its own, maybe leaving a descendant that holds its pipes
ProcExit(status, child) ==
  /\ Running /\ procState = "running" /\ wants = "none"
  /\ procState' = "exited" /\ exitStatus' = status /\ descendant' = child
  /\ exitedInTime' = ~timerFired
  /\ UNCHANGED <<spawn, wants, pendingSig, outBuf, errBuf, outWritten, errWritten>>
  /\ UNCHANGED hvars
  /\ UNCHANGED <<variant, epc, sigs, stdout_data, stderr_data, outReader, errReader, timed_out,
                 return_code, success, result, timerFired, graceExpired, outAtTimeout, errAtTimeout>>

\* a signal that was sent ends the process (SIGTERM may also stay ignored)
ProcSignalled ==
  /\ Running /\ procState = "running" /\ pendingSig # "none"
  /\ procState' = "exited" /\ exitStatus' = (IF pendingSig = "TERM" THEN -15 ELSE -9)
  /\ wants' = "none" /\ pendingSig' = "none"
  /\ UNCHANGED <<spawn, descendant, outBuf, errBuf, outWritten, errWritten>>
  /\ UNCHANGED <<hvars, evars>>

\* the descendant holding the pipes exits
DescendantExit ==
  /\ Running /\ descendant /\ descendant' = FALSE
  /\ UNCHANGED <<spawn, procState, exitStatus, wants, pendingSig, outBuf, errBuf, outWritten, errWritten>>
  /\ UNCHANGED <<hvars, evars>>

Process ==
  \/ \E stream \in {"out", "err"} : ProcWrite(stream)
  \/ \E stream \in {"out", "err"} : ProcBlock(stream)
  \/ \E status \in {0, 1}, child \in BOOLEAN : ProcExit(status, child)
  \/ ProcSignalled
  \/ DescendantExit

\* Popen.send_signal: nothing is sent to a process known to have exited
SendSignal(sig) ==
  IF procState = "running"
  THEN sigs' = Append(sigs, sig) /\ pendingSig' = (IF pendingSig = "KILL" THEN "KILL" ELSE sig)
  ELSE UNCHANGED <<sigs, pendingSig>>

(***************************************************************************)
(* kali_server.CommandExecutor.execute                                     *)
(***************************************************************************)
TimedOutResult == Result(<<>>, TimeoutMsg, -1, FALSE, TRUE, FALSE)
NotFoundResult == Result(<<>>, NotFoundMsg, 127, FALSE, FALSE, FALSE)
ExecErrorResult == Result(<<>>, ExecErrorMsg, -1, FALSE, FALSE, FALSE)
\* the text of the lines taken from the stderr pipe: the shell's message when
\* the shell could not run the program
StderrText(n) ==
  IF n > 0 /\ spawn = "missing" THEN ShellNotFound
  ELSE IF n > 0 /\ spawn = "noexec" THEN ShellNoExec
  ELSE Lines(n)
CompletedResult ==
  Result(Truncate(Lines(stdout_data)), Truncate(StderrText(stderr_data)),
         exitStatus, exitStatus = 0, FALSE, FALSE)

\* logger.info(" ".join(shlex.quote(a) for a in self.argv)), before the try
S_Log ==
  /\ Running /\ variant = "server" /\ epc = "log"
  /\ epc' = (IF \E i \in 1..Len(argv) : ~argv[i].isstr THEN "raised" ELSE "popen")
  /\ UNCHANGED <<hvars, pvars>>
  /\ UNCHANGED <<variant, sigs, stdout_data, stderr_data, outReader, errReader, timed_out,
                 return_code, success, result, timerFired, exitedInTime, graceExpired,
                 outAtTimeout, errAtTimeout>>

\* subprocess.Popen(self.argv, ...) and the handlers of what it raises
S_Popen(outcome) ==
  /\ Running /\ variant = "server" /\ epc = "popen"
  /\ spawn' = outcome
  /\ CASE outcome = "ok" -> procState' = "running" /\ epc' = "communicate" /\ UNCHANGED result
       [] outcome = "missing" -> result' = NotFoundResult /\ epc' = "done" /\ UNCHANGED procState
       [] OTHER -> result' = ExecErrorResult /\ epc' = "done" /\ UNCHANGED procState
  /\ UNCHANGED <<exitStatus, wants, descendant, pendingSig, outBuf, errBuf, outWritten, errWritten>>
  /\ UNCHANGED hvars
  /\ UNCHANGED <<variant, sigs, stdout_data, stderr_data, outReader, errReader, timed_out,
                 return_code, success, timerFired, exitedInTime, graceExpired,
                 outAtTimeout, errAtTimeout>>

\* communicate() takes what a pipe holds
S_CommRead(stream) ==
  /\ Running /\ variant = "server" /\ epc = "communicate"
  /\ Buf(stream) > 0
  /\ IF stream = "out"
     THEN outBuf' = outBuf - 1 /\ stdout_data' = stdout_data + 1 /\ UNCHANGED <<errBuf, stderr_data>>
     ELSE errBuf' = errBuf - 1 /\ stderr_data' = stderr_data + 1 /\ UNCHANGED <<outBuf, stdout_data>>
  /\ UNCHANGED <<spawn, procState, exitStatus, wants, descendant, pendingSig, outWritten, errWritten>>
  /\ UNCHANGED hvars
  /\ UNCHANGED <<variant, epc, sigs, outReader, errReader, timed_out,
                 return_code, success, result, timerFired, exitedInTime, graceExpired,
                 outAtTimeout, errAtTimeout>>

\* communicate() returns at end of file on both pipes, the process waited for
S_CommReturns ==
  /\ Running /\ variant = "server" /\ epc = "communicate"
  /\ AtEOF("out") /\ AtEOF("err")
  /\ result' = CompletedResult /\ epc' = "done"
  /\ UNCHANGED <<hvars, pvars>>
  /\ UNCHANGED <<variant, sigs, stdout_data, stderr_data, outReader, errReader, timed_out,
                 return_code, success, timerFired, exitedInTime, graceExpired,
                 outAtTimeout, errAtTimeout>>

\* the timeout elapses while communicate() is still held by an open pipe
S_Timeout ==
  /\ Running /\ variant = "server" /\ epc = "communicate"
  /\ procState = "running" \/ descendant
  /\ timerFired' = TRUE /\ outAtTimeout' = outWritten /\ errAtTimeout' = errWritten
  /\ epc' = "except_timeout"
  /\ UNCHANGED <<hvars, pvars>>
  /\ UNCHANGED <<variant, sigs, stdout_data, stderr_data, outReader, errReader, timed_out,
                 return_code, success, result, exitedInTime, graceExpired>>

\* communicate() raises something else (output that does not decode, an I/O error)
S_CommFault ==
  /\ Running /\ variant = "server" /\ epc = "communicate"
  /\ result' = ExecErrorResult /\ epc' = "done"
  /\ UNCHANGED <<hvars, pvars>>
  /\ UNCHANGED <<variant, sigs, stdout_data, stderr_data, outReader, errReader, timed_out,
                 return_code, success, timerFired, exitedInTime, graceExpired,
                 outAtTimeout, errAtTimeout>>

\* except subprocess.TimeoutExpired: proc.kill(); return {...}.  kill() raises
\* when the system refuses the signal, and nothing in the handler catches it
S_Kill(denied) ==
  /\ Running /\ variant = "server" /\ epc = "except_timeout"
  /\ denied => procState = "running"
  /\ IF denied
     THEN epc' = "raised" /\ UNCHANGED <<sigs, pendingSig, result>>
     ELSE SendSignal("KILL") /\ result' = TimedOutResult /\ epc' = "done"
  /\ UNCHANGED <<spawn, procState, exitStatus, wants, descendant, outBuf, errBuf, outWritten, errWritten>>
  /\ UNCHANGED hvars
  /\ UNCHANGED <<variant, stdout_data, stderr_data, outReader, errReader, timed_out,
                 return_code, success, timerFired, exitedInTime, graceExpired,
                 outAtTimeout, errAtTimeout>>

ServerExecutor ==
  \/ S_Log
  \/ \E outcome \in {"ok", "missing", "noexec", "oserror"} : S_Popen(outcome)
  \/ \E stream \in {"out", "err"} : S_CommRead(stream)
  \/ S_CommReturns
  \/ S_Timeout
  \/ S_CommFault
  \/ \E denied \in BOOLEAN : S_Kill(denied)

(***************************************************************************)
(* models.executor.CommandExecutor.execute                                 *)
(***************************************************************************)
\* the `shell` argument Popen gets from each executor: kali_server.py leaves the
\* default (False), models/executor.py passes shell=True
shell(v) == v = "models"

\* the outer `except Exception` of execute
M_ErrorResult ==
  Result(Lines(stdout_data), StderrText(stderr_data) \o ErrorSuffix, -1, FALSE, FALSE, FALSE)

\* subprocess.Popen(self.command, shell=True, ...): the shell starts unless the
\* system cannot start a process; a shell that cannot find or run the program
\* says so on stderr and exits with 127 or 126
M_Popen(outcome) ==
  /\ hpc = "direct" /\ variant = "models" /\ epc = "popen"
  /\ spawn' = outcome
  /\ CASE outcome = "ok" ->
            /\ procState' = "running" /\ epc' = "start_threads"
            /\ UNCHANGED <<exitStatus, errBuf, errWritten, result>>
       [] outcome \in {"missing", "noexec"} ->
            /\ procState' = "exited" /\ exitStatus' = (IF outcome = "missing" THEN 127 ELSE 126)
            /\ errBuf' = 1 /\ errWritten' = 1 /\ epc' = "start_threads"
            /\ UNCHANGED result
       [] OTHER ->
            /\ result' = M_ErrorResult /\ epc' = "done"
            /\ UNCHANGED <<procState, exitStatus, errBuf, errWritten>>
  /\ exitedInTime' = (outcome \in {"missing", "noexec"})
  /\ UNCHANGED <<wants, descendant, pendingSig, outBuf, outWritten>>
  /\ UNCHANGED hvars
  /\ UNCHANGED <<variant, sigs, stdout_data, stderr_data, outReader, errReader, timed_out,
                 return_code, success, timerFired, graceExpired, outAtTimeout, errAtTimeout>>

\* the two reader threads are started
M_StartThreads ==
  /\ hpc = "direct" /\ variant = "models" /\ epc = "start_threads"
  /\ outReader' = "running" /\ errReader' = "running" /\ epc' = "wait"
  /\ UNCHANGED <<hvars, pvars>>
  /\ UNCHANGED <<variant, sigs, stdout_data, stderr_data, timed_out,
                 return_code, success, result, timerFired, exitedInTime, graceExpired,
                 outAtTimeout, errAtTimeout>>

\* a runner with one reader thread, for stdout only
ReaderOfStdoutOnly(stream) == IF stream = "out" THEN outReader ELSE "none"
Reader(stream) == IF stream = "out" THEN outReader ELSE errReader

\* _read_stdout / _read_stderr: one readline() and `self.<stream>_data += line`
M_Read(stream) ==
  /\ Reader(stream) = "running" /\ Buf(stream) > 0
  /\ IF stream = "out"
     THEN outBuf' = outBuf - 1 /\ stdout_data' = stdout_data + 1 /\ UNCHANGED <<errBuf, stderr_data>>
     ELSE errBuf' = errBuf - 1 /\ stderr_data' = stderr_data + 1 /\ UNCHANGED <<outBuf, stdout_data>>
  /\ UNCHANGED <<spawn, procState, exitStatus, wants, descendant, pendingSig, outWritten, errWritten>>
  /\ UNCHANGED hvars
  /\ UNCHANGED <<variant, epc, sigs, outReader, errReader, timed_out,
                 return_code, success, result, timerFired, exitedInTime, graceExpired,
                 outAtTimeout, errAtTimeout>>

\* readline() returns "" at end of file and the reader thread ends
M_ReaderEOF(stream) ==
  /\ Reader(stream) = "running" /\ AtEOF(stream)
  /\ IF stream = "out" THEN outReader' = "done" /\ UNCHANGED errReader
                       ELSE errReader' = "done" /\ UNCHANGED outReader
  /\ UNCHANGED <<hvars, pvars>>
  /\ UNCHANGED <<variant, epc, sigs, stdout_data, stderr_data, timed_out,
                 return_code, success, result, timerFired, exitedInTime, graceExpired,
                 outAtTimeout, errAtTimeout>>

\* self.return_code = self.process.wait(timeout=self.timeout)
M_WaitReturns ==
  /\ hpc = "direct" /\ variant = "models" /\ epc = "wait"
  /\ procState = "exited"
  /\ return_code' = exitStatus /\ epc' = "join_out"
  /\ UNCHANGED <<hvars, pvars>>
  /\ UNCHANGED <<variant, sigs, stdout_data, stderr_data, outReader, errReader, timed_out,
                 success, result, timerFired, exitedInTime, graceExpired,
                 outAtTimeout, errAtTimeout>>

\* self.stdout_thread.join(), then self.stderr_thread.join()
M_Join(stream) ==
  /\ hpc = "direct" /\ variant = "models"
  /\ epc = (IF stream = "out" THEN "join_out" ELSE "join_err")
  /\ Reader(stream) = "done"
  /\ epc' = (IF stream = "out" THEN "join_err" ELSE "success")
  /\ UNCHANGED <<hvars, pvars>>
  /\ UNCHANGED <<variant, sigs, stdout_data, stderr_data, outReader, errReader, timed_out,
                 return_code, success, result, timerFired, exitedInTime, graceExpired,
                 outAtTimeout, errAtTimeout>>

\* except subprocess.TimeoutExpired: self.timed_out = True
M_Timeout ==
  /\ hpc = "direct" /\ variant = "models" /\ epc = "wait"
  /\ procState = "running"
  /\ timed_out' = TRUE /\ timerFired' = TRUE
  /\ outAtTimeout' = outWritten /\ errAtTimeout' = errWritten
  /\ epc' = "terminate"
  /\ UNCHANGED <<hvars, pvars>>
  /\ UNCHANGED <<variant, sigs, stdout_data, stderr_data, outReader, errReader,
                 return_code, success, result, exitedInTime, graceExpired>>

\* self.process.terminate(); an exception of it goes to the outer handler
M_Terminate(denied) ==
  /\ hpc = "direct" /\ variant = "models" /\ epc = "terminate"
  /\ denied => procState = "running"
  /\ IF denied
     THEN result' = M_ErrorResult /\ epc' = "done" /\ UNCHANGED <<sigs, pendingSig>>
     ELSE SendSignal("TERM") /\ epc' = "grace_wait" /\ UNCHANGED result
  /\ UNCHANGED <<spawn, procState, exitStatus, wants, descendant, outBuf, errBuf, outWritten, errWritten>>
  /\ UNCHANGED hvars
  /\ UNCHANGED <<variant, stdout_data, stderr_data, outReader, errReader, timed_out,
                 return_code, success, timerFired, exitedInTime, graceExpired,
                 outAtTimeout, errAtTimeout>>

\* self.process.wait(timeout=5) returns: the process has ended
M_GraceReturns ==
  /\ hpc = "direct" /\ variant = "models" /\ epc = "grace_wait"
  /\ procState = "exited"
  /\ epc' = "set_rc"
  /\ UNCHANGED <<hvars, pvars>>
  /\ UNCHANGED <<variant, sigs, stdout_data, stderr_data, outReader, errReader, timed_out,
                 return_code, success, result, timerFired, exitedInTime, graceExpired,
                 outAtTimeout, errAtTimeout>>

\* self.process.wait(timeout=5) raises TimeoutExpired: the process is still alive
M_GraceExpires ==
  /\ hpc = "direct" /\ variant = "models" /\ epc = "grace_wait"
  /\ procState = "running"
  /\ graceExpired' = TRUE /\ epc' = "kill"
  /\ UNCHANGED <<hvars, pvars>>
  /\ UNCHANGED <<variant, sigs, stdout_data, stderr_data, outReader, errReader, timed_out,
                 return_code, success, result, timerFired, exitedInTime,
                 outAtTimeout, errAtTimeout>>

\* self.process.kill(); an exception of it goes to the outer handler
M_Kill(denied) ==
  /\ hpc = "direct" /\ variant = "models" /\ epc = "kill"
  /\ denied => procState = "running"
  /\ IF denied
     THEN result' = M_ErrorResult /\ epc' = "done" /\ UNCHANGED <<sigs, pendingSig>>
     ELSE SendSignal("KILL") /\ epc' = "set_rc" /\ UNCHANGED result
  /\ UNCHANGED <<spawn, procState, exitStatus, wants, descendant, outBuf, errBuf, outWritten, errWritten>>
  /\ UNCHANGED hvars
  /\ UNCHANGED <<variant, stdout_data, stderr_data, outReader, errReader, timed_out,
                 return_code, success, timerFired, exitedInTime, graceExpired,
                 outAtTimeout, errAtTimeout>>

\* self.return_code = -1
M_SetRc ==
  /\ hpc = "direct" /\ variant = "models" /\ epc = "set_rc"
  /\ return_code' = -1 /\ epc' = "success"
  /\ UNCHANGED <<hvars, pvars>>
  /\ UNCHANGED <<variant, sigs, stdout_data, stderr_data, outReader, errReader, timed_out,
                 success, result, timerFired, exitedInTime, graceExpired,
                 outAtTimeout, errAtTimeout>>

HasOutput == stdout_data > 0 \/ stderr_data > 0
\* success = True if self.timed_out and (stdout_data or stderr_data) else (return_code == 0)
M_Success ==
  /\ hpc = "direct" /\ variant = "models" /\ epc = "success"
  /\ success' = (IF timed_out /\ HasOutput THEN TRUE ELSE return_code = 0)
  /\ epc' = "dict_stdout"
  /\ UNCHANGED <<hvars, pvars>>
  /\ UNCHANGED <<variant, sigs, stdout_data, stderr_data, outReader, errReader, timed_out,
                 return_code, result, timerFired, exitedInTime, graceExpired,
                 outAtTimeout, errAtTimeout>>

\* the returned dictionary is built entry by entry while the readers may still run
M_Dict ==
  /\ hpc = "direct" /\ variant = "models"
  /\ CASE epc = "dict_stdout" ->
            result' = [result EXCEPT !.stdout = Lines(stdout_data)] /\ epc' = "dict_stderr"
       [] epc = "dict_stderr" ->
            /\ result' = [result EXCEPT !.stderr = StderrText(stderr_data), !.return_code = return_code,
                                        !.success = success, !.timed_out = timed_out]
            /\ epc' = "dict_partial"
       [] epc = "dict_partial" ->
            /\ result' = [result EXCEPT !.partial_results = timed_out /\ HasOutput, !.has = TRUE]
            /\ epc' = "done"
       [] OTHER -> FALSE
  /\ UNCHANGED <<hvars, pvars>>
  /\ UNCHANGED <<variant, sigs, stdout_data, stderr_data, outReader, errReader, timed_out,
                 return_code, success, timerFired, exitedInTime, graceExpired,
                 outAtTimeout, errAtTimeout>>

ModelsExecutor ==
  \/ \E outcome \in {"ok", "missing", "noexec", "oserror"} : M_Popen(outcome)
  \/ M_StartThreads
  \/ \E stream \in {"out", "err"} : M_Read(stream)
  \/ \E stream \in {"out", "err"} : M_ReaderEOF(stream)
  \/ M_WaitReturns
  \/ \E stream \in {"out", "err"} : M_Join(stream)
  \/ M_Timeout
  \/ \E denied \in BOOLEAN : M_Terminate(denied)
  \/ M_GraceReturns
  \/ M_GraceExpires
  \/ \E denied \in BOOLEAN : M_Kill(denied)
  \/ M_SetRc
  \/ M_Success
  \/ M_Dict

(***************************************************************************)
(* Request handling (kali_server.py)                                       *)
(***************************************************************************)
BodyKinds == {"object", "malformed", "array"}

\* a request arrives at a route
Receive(ep, b, d) ==
  /\ hpc = "idle"
  /\ b # "object" => d = NoData
  /\ hpc' = "handler" /\ endpoint' = ep /\ body' = b /\ data' = d
  /\ UNCHANGED <<allow_generic, verdict, argv, resp, rcfile>>
  /\ UNCHANGED <<pvars, evars>>

\* the handler up to its call of run(argv): json_error for a ValueError, the
\* framework's 500 for any other exception
Respond(o) ==
  /\ verdict' = o
  /\ IF o.k = "ok"
     THEN argv' = o.v /\ hpc' = "run" /\ epc' = "log" /\ UNCHANGED resp
     ELSE resp' = [status |-> StatusOf(o.k), result |-> NoResult] /\ hpc' = "responded"
          /\ UNCHANGED <<argv, epc>>
  /\ UNCHANGED <<allow_generic, endpoint, body, data>>
  /\ UNCHANGED pvars
  /\ UNCHANGED <<variant, sigs, stdout_data, stderr_data, outReader, errReader, timed_out,
                 return_code, success, result, timerFired, exitedInTime, graceExpired,
                 outAtTimeout, errAtTimeout>>

Handle ==
  /\ hpc = "handler" /\ endpoint # "metasploit"
  /\ Respond(HandlerOutcome(endpoint, body, data))
  /\ UNCHANGED rcfile

\* the metasploit handler also writes the resource file inside its try block:
\* tempfile.NamedTemporaryFile(delete=False) and tf.write may raise OSError
HandleMetasploit(fs) ==
  /\ hpc = "handler" /\ endpoint = "metasploit"
  /\ LET o == HandlerOutcome(endpoint, body, data)
         lines == msf_lines(IF body = "malformed" THEN NoData ELSE data)
     IN IF o.k # "ok"
        THEN fs = "ok" /\ Respond(o) /\ UNCHANGED rcfile
        ELSE CASE fs = "ok" -> Respond(o) /\ rcfile' = [exists |-> TRUE, lines |-> lines.v]
               [] fs = "create_fails" -> Respond(Crash("OSError")) /\ UNCHANGED rcfile
               [] fs = "write_fails" -> Respond(Crash("OSError")) /\ rcfile' = [exists |-> TRUE, lines |-> <<>>]

\* run(argv) returned: os.remove(rc_path) for metasploit, then jsonify(result)
AfterRun ==
  /\ hpc = "run" /\ epc = "done"
  /\ resp' = [status |-> 200, result |-> result] /\ hpc' = "responded"
  /\ rcfile' = (IF endpoint = "metasploit" THEN NoFile ELSE rcfile)
  /\ UNCHANGED <<allow_generic, endpoint, body, data, verdict, argv>>
  /\ UNCHANGED <<pvars, evars>>

\* run(argv) raised: the framework answers 500
RunRaised ==
  /\ hpc = "run" /\ epc = "raised"
  /\ resp' = [status |-> 500, result |-> NoResult] /\ hpc' = "responded"
  /\ UNCHANGED <<allow_generic, endpoint, body, data, verdict, argv, rcfile>>
  /\ UNCHANGED <<pvars, evars>>

\* the request is over; the server waits for the next one
Reset ==
  /\ hpc = "responded" \/ (hpc = "direct" /\ epc \in {"done", "raised"})
  /\ hpc' = "idle" /\ endpoint' = "none" /\ body' = "object" /\ data' = NoData
  /\ verdict' = NoVerdict /\ argv' = <<>> /\ resp' = NoResp /\ rcfile' = NoFile
  /\ variant' = "server" /\ epc' = "none"
  /\ ExecutorReset
  /\ UNCHANGED allow_generic

Server ==
  \/ hpc = "idle" /\ \E ep \in Endpoints, b \in BodyKinds : \E d \in Bodies(ep) : Receive(ep, b, d)
  \/ Handle
  \/ \E fs \in {"ok", "create_fails", "write_fails"} : HandleMetasploit(fs)
  \/ AfterRun
  \/ RunRaised

Next == Server \/ ServerExecutor \/ Process \/ Reset
Spec == Init /\ [][Next]_vars

(***************************************************************************)
(* Direct use of each executor: CommandExecutor(command, timeout).execute()*)
(***************************************************************************)
DirectArgv == <<Lit(<<"t","o","o","l">>)>>
Execute(v) ==
  /\ hpc = "idle"
  /\ hpc' = "direct" /\ variant' = v /\ argv' = DirectArgv
  /\ epc' = (IF v = "server" THEN "log" ELSE "popen")
  /\ UNCHANGED <<allow_generic, endpoint, body, data, verdict, resp, rcfile>>
  /\ UNCHANGED pvars
  /\ UNCHANGED <<sigs, stdout_data, stderr_data, outReader, errReader, timed_out,
                 return_code, success, result, timerFired, exitedInTime, graceExpired,
                 outAtTimeout, errAtTimeout>>

NextExec ==
  \/ \E v \in {"server", "models"} : Execute(v)
  \/ ServerExecutor
  \/ ModelsExecutor
  \/ Process
  \/ Reset
SpecExec == Init /\ [][NextExec]_vars

(***************************************************************************)
(* Properties                                                              *)
(***************************************************************************)
IsPrefix(p, s) == Len(p) <= Len(s) /\ SubSeq(s, 1, Len(p)) = p
\* run(argv) has been called for the request in hand
RunCalled == epc # "none"
\* an external process has been started
Spawned == procState # "none"

\* The Validator rule of each semantic role, applied to the request-derived
\* part of an argv element
RoleOK(e) ==
  /\ e.isstr
  /\ CASE e.role = "hostname" -> validate_hostname_or_ip(Str(e.val), "target").k = "ok"
       [] e.role = "url" -> validate_url(Str(e.val), "url").k = "ok"
       [] e.role = "ports" -> e.val # <<>> /\ validate_ports(Str(e.val)).k = "ok"
       [] e.role = "path" -> sanitize_wordlist_path(Str(e.val)).k = "ok"
       [] e.role = "flag" -> SafeToken(e.val)
       [] e.role = "mode" -> e.val \in Modes
       [] e.role = "ident" -> FullMatch(Str(e.val), IdentCh).k = "ok"
       [] e.role = "data" -> ~AnyIn(e.val, DataMetaCh)
       [] e.role = "literal" -> ~AnyIn(e.val, ArgMetaCh)
       [] e.role = "command" -> e.val \in ALLOWED_COMMANDS
       [] e.role = "cmdarg" -> ~AnyIn(e.val, CommandMetaCh)
       [] OTHER -> FALSE

\* C1: for every tool endpoint and request body, every element of the argument
\* vector handed to the runner that derives from request input has passed the
\* Validator rule for its role before the process is spawned.
C1_ArgvValidated ==
  (hpc = "run" /\ endpoint # "command" /\ Spawned)
     => \A i \in 1..Len(argv) : argv[i].src = "req" => RoleOK(argv[i])

\* The validation steps of each tool handler, applied to the request fields one
\* by one (not in the handler's order): the set of their outcomes
Validations(ep, d) ==
  LET target == validate_hostname_or_ip(Get(d, "target", Str(<<>>)), "target")
      url == validate_url(Get(d, "url", Str(<<>>)), "url")
      args(default) == parse_additional_args(Get(d, "additional_args", Str(default)))
      wordlist(default) == sanitize_wordlist_path(Get(d, "wordlist", Str(default)))
      mode == LET m == Get(d, "mode", Str(<<"d","i","r">>))
              IN IF m.t = "str" /\ m.s \in Modes THEN Ok(m.s)
                 ELSE IF m.t = "str" THEN Reject("bad mode") ELSE Crash("TypeError")
      creds == IF (Truthy(d.username) \/ Truthy(d.username_file))
                  /\ (Truthy(d.password) \/ Truthy(d.password_file))
               THEN Ok(<<>>) ELSE Reject("credentials")
  IN CASE ep = "nmap" -> {target, args(<<"-","T","4"," ","-","P","n">>),
                          IF Truthy(d.ports) THEN validate_ports(d.ports) ELSE Ok(<<>>)}
       [] ep = "gobuster" -> {url, mode, wordlist(DefaultWordlist), args(<<>>)}
       [] ep = "dirb" -> {url, wordlist(DefaultWordlist), args(<<>>)}
       [] ep = "nikto" -> {target, args(<<>>)}
       [] ep = "sqlmap" -> {url, args(<<>>)}
       [] ep = "hydra" -> {target, creds, args(<<>>)}
       [] ep = "john" -> {wordlist(DefaultJohnWordlist), args(<<>>)}
       [] ep = "wpscan" -> {url, args(<<>>)}
       [] ep = "enum4linux" -> {target, args(<<"-","a">>)}
       [] OTHER -> {}
\* the fields the handler reads, as it reads them
Fields == IF body = "malformed" THEN NoData ELSE data

\* C2: for every tool endpoint, a request that fails validation (invalid or
\* missing target/url, bad mode, non-permitted wordlist, unsafe additional_args,
\* hydra without credentials) gets a client-error response and no process is
\* spawned for it: run() is reached only after every validation step succeeded.
C2_ValidationBeforeSpawn ==
  (endpoint \notin {"none", "command"}) =>
     /\ RunCalled => \A r \in Validations(endpoint, Fields) : r.k = "ok"
     /\ (hpc = "responded" /\ body # "array"
           /\ \E r \in Validations(endpoint, Fields) : r.k # "ok")
        => (resp.status = 400 /\ ~Spawned)

\* the words shlex makes of the command of the request
CommandWords == shlex_split(Get(Fields, "command", Str(<<>>)))
HasFirstWord == body # "array" /\ Truthy(Get(Fields, "command", Str(<<>>)))
                /\ CommandWords.k = "ok" /\ CommandWords.v # <<>>
FirstWordAllowed == HasFirstWord /\ CommandWords.v[1] \in ALLOWED_COMMANDS

C4_GracefulThenKill ==
  /\ \A i \in 1..Len(sigs) : sigs[i] = "KILL" => (graceExpired /\ \E j \in 1..(i - 1) : sigs[j] = "TERM")
  /\ (result.has /\ result.timed_out) => result.return_code = -1

\* C5: when execute returns a timed-out result the process is no longer running.
C5_DeadWhenReported ==
  (result.has /\ result.timed_out) => procState # "running"

\* C6: every line the process wrote to a stream before the timeout elapsed is in
\* that stream's field of the timed-out result.
C6_PartialOutputReturned ==
  (result.has /\ result.timed_out) =>
     /\ IsPrefix(Lines(outAtTimeout), result.stdout)
     /\ IsPrefix(StderrText(errAtTimeout), result.stderr)

\* an execution that ran the program to its end and reported its exit status
Completed == result.has /\ spawn = "ok" /\ procState = "exited" /\ ~result.timed_out
             /\ result.return_code = exitStatus
Bounded(text, produced) ==
  /\ Len(text) <= MAX_OUTPUT_BYTES + Len(TruncMarker)
  /\ IF Len(produced) > MAX_OUTPUT_BYTES
     THEN text = SubSeq(produced, 1, MAX_OUTPUT_BYTES) \o TruncMarker
     ELSE text = produced
\* C7: for each of stdout and stderr the returned text is at most the ceiling
\* plus the marker; output above the ceiling comes back as its first ceiling
\* bytes plus the marker, output within the ceiling unchanged.
C7_OutputBounded ==
  Completed => /\ Bounded(result.stdout, Lines(outWritten))
               /\ Bounded(result.stderr, Lines(errWritten))

\* execute answered with its "Execution error" result
Faulted == result.stderr = ExecErrorMsg
\* C8: if the process exits within the timeout, return_code is its exit status,
\* success is (return_code = 0) and timed_out is false.
C8_ExitStatusReported ==
  (result.has /\ spawn = "ok" /\ exitedInTime /\ ~Faulted) =>
     /\ result.return_code = exitStatus
     /\ result.success = (exitStatus = 0)
     /\ ~result.timed_out

\* C9: if the program cannot be found or started, execute returns a result with
\* return_code = 127, success = false, timed_out = false, empty stdout and a
\* message in stderr.
C9_NotStartedIs127 ==
  (result.has /\ spawn # "ok") =>
     /\ result.return_code = 127 /\ ~result.success /\ ~result.timed_out
     /\ result.stdout = <<>> /\ result.stderr # <<>>

\* C10: execute never lets an exception reach the request handler, on any path.
C10_ExecuteNeverRaises == epc # "raised"

\* C11: for every tool endpoint and every request body (malformed, missing
\* fields, not an object, fields of an unexpected type) the handler ends either
\* in a client error or in the structured result of the run, never in an
\* unhandled error; a malformed body is handled as the empty object is.
C11_ClientErrorOrResult ==
  (hpc = "responded" /\ endpoint \notin {"none", "command"}) =>
     /\ resp.status = 400 \/ (resp.status = 200 /\ resp.result.has)
     /\ body = "malformed" => verdict = HandlerTry(endpoint, NoData)

\* C12: once a metasploit request has completed, on whatever exit path, the
\* temporary resource file written for it no longer exists.
C12_ResourceFileRemoved ==
  (hpc = "responded" /\ endpoint = "metasploit") => ~rcfile.exists

\* the components of a path with "." and empty components dropped and each ".."
\* taking back the component before it
RECURSIVE Resolve(_, _)
Resolve(parts, stack) ==
  IF parts = <<>> THEN stack
  ELSE IF Head(parts) = <<".",".">>
       THEN Resolve(Tail(parts), IF stack = <<>> THEN <<>> ELSE SubSeq(stack, 1, Len(stack) - 1))
       ELSE Resolve(Tail(parts), Append(stack, Head(parts)))
Canonical(s) == Resolve(Filter(SplitOn(s, "/"), {<<>>, <<".">>}), <<>>)
Roots == { <<<<"u","s","r">>, <<"s","h","a","r","e">>, <<"w","o","r","d","l","i","s","t","s">>>>, <<<<"t","m","p">>>> }
InsideRoot(s) == StartsWith(s, <<"/">>) /\ \E r \in Roots : IsPrefix(r, Canonical(s))

\* C13: sanitize_wordlist_path accepts a path exactly when it is absolute and
\* its canonical location lies under /usr/share/wordlists or /tmp: a path that
\* leaves a root through "..", or whose first component only begins with the name
\* of a root, is rejected, and no such path reaches a spawned tool.
C13_PathUnderRoot ==
  (endpoint \in {"gobuster", "dirb"} /\ hpc \in {"run", "responded"}
     /\ body = "object" /\ data.wordlist.t = "str") =>
     /\ (sanitize_wordlist_path(data.wordlist).k = "ok") = InsideRoot(data.wordlist.s)
     /\ RunCalled => InsideRoot(data.wordlist.s)

\* C14: every process a CommandExecutor starts is started from an argument
\* vector with no shell in between: no execution path spawns through a shell,
\* so a program that does not exist starts no process at all.
C14_NoShell ==
  Spawned => (~shell(variant) /\ spawn # "missing")

\* the words of the argument vector handed to run()
ArgvText == [i \in 1..Len(argv) |-> argv[i].tok]
\* the words shlex makes of a request field, none when the field is empty
Words(v) == IF Truthy(v) THEN shlex_split(v).v ELSE <<>>
NmapExpected(d) ==
  <<<<"n","m","a","p">>>> \o Words(Get(d, "scan_type", Str(<<"-","s","C","V">>)))
     \o (IF Truthy(d.ports) THEN <<<<"-","p">>, d.ports.s>> ELSE <<>>)
     \o Words(Get(d, "additional_args", Str(<<"-","T","4"," ","-","P","n">>)))
     \o <<d.target.s>>

\* C15: for a valid network-scan request the argument vector is exactly nmap,
\* the scan_type words (default -sCV), -p and the ports iff ports is non-empty,
\* the additional_args words (default -T4 -Pn) and the target, in that order;
\* {"target": "10.0.0.5"} gives nmap -sCV -T4 -Pn 10.0.0.5; the target is last.
C15_NmapArgv ==
  (endpoint = "nmap" /\ hpc = "run") =>
     /\ ArgvText = NmapExpected(Fields)
     /\ ArgvText[Len(ArgvText)] = Fields.target.s
     /\ Fields = [NoData EXCEPT !.target = Str(<<"1","0",".","0",".","0",".","5">>)]
          => ArgvText = <<<<"n","m","a","p">>, <<"-","s","C","V">>, <<"-","T","4">>, <<"-","P","n">>, <<"1","0",".","0",".","0",".","5">>>>
\* nmap has been started for a request with scan words, ports and additional
\* arguments of its own
C15_Witness ==
  /\ endpoint = "nmap" /\ hpc = "run" /\ Spawned
  /\ ArgvText = <<<<"n","m","a","p">>, <<"-","s","V">>, <<"-","O">>, <<"-","p">>, <<"8","0",",","4","4","3">>, <<"-","T","4">>, <<"-","-","o","p","e","n">>, <<"1","0",".","0",".","0",".","5">>>>

\* C16: in the threaded runner a timed-out result is one consistent snapshot:
\* success is true exactly when partial_results is set, which is exactly when
\* the returned stdout or stderr is not empty.
C16_TimedOutSnapshot ==
  (variant = "models" /\ result.has /\ result.timed_out) =>
     /\ result.success = result.partial_results
     /\ result.partial_results = (result.stdout # <<>> \/ result.stderr # <<>>)

\* the process is stopped in a write to the full pipe of a stream
Blocked(stream) == procState = "running" /\ wants = stream /\ Buf(stream) = PipeCap
\* the runner is in its wait for the exit of the process
RunnerWaits ==
  \/ variant = "server" /\ epc = "communicate"
  \/ variant = "models" /\ epc \in {"wait", "grace_wait"}

\* C17: stdout and stderr are drained by two independent readers, so a process
\* that fills the pipe of one stream while writing nothing to the other is never
\* left blocked: in every state where the process is blocked on a full pipe while
\* the runner waits for its exit, a reader is ready to take a line from that pipe.
C17_NoPipeDeadlock ==
  \A stream \in {"out", "err"} :
     (Running /\ Blocked(stream) /\ RunnerWaits)
        => ENABLED (S_CommRead(stream) \/ M_Read(stream))
\* the threaded runner waits while the process is blocked on a full stdout pipe
\* and has written nothing to stderr
C17_Witness ==
  /\ variant = "models" /\ epc = "wait" /\ Blocked("out") /\ errWritten = 0

(***************************************************************************)
(* Scheduling: the thread that runs execute() and the two reader threads   *)
(* each get to run, timers fire and a SIGKILL is delivered.  Nothing makes *)
(* the process, or a descendant that holds its pipes, exit on its own.     *)
(***************************************************************************)
ExecFairness ==
  /\ WF_vars(ServerExecutor)
  /\ WF_vars(ModelsExecutor)
  /\ WF_vars(\E stream \in {"out", "err"} : M_Read(stream))
  /\ WF_vars(\E stream \in {"out", "err"} : M_ReaderEOF(stream))
  /\ WF_vars(ProcSignalled /\ pendingSig = "KILL")
FairSpecExec == SpecExec /\ ExecFairness

\* C18: every call of execute eventually comes back to its caller, whether the
\* process exits normally, never exits, or exits while a descendant still holds
\* its stdout/stderr pipe open.
C18_ExecuteReturns ==
  (hpc = "direct" /\ epc \notin {"none", "done", "raised"}) ~> (epc \in {"done", "raised"})

====
